---- MODULE Spec2Model ----
(***************************************************************************)
(* A model of mx_javamodules.py: the Java module descriptor, the package   *)
(* lookup over a module path, the module dependency walk with its          *)
(* per-distribution cache, descriptor pickling (save / load) and the       *)
(* make_java_module pipeline.                                              *)
(*                                                                         *)
(* Python strings are sequences of one-character strings, so that          *)
(* startswith, replace, lower, concatenation and the ordering used by      *)
(* sorted() are computed and not assumed.  Python's None is the record     *)
(* None; a nullable string slot holds Str(s); a reference to a live        *)
(* distribution object is Ref(name).                                       *)
(***************************************************************************)
EXTENDS Integers, Sequences, FiniteSets, TLC

VARIABLES
    args,          \* arguments of the pure function under check
    ret,           \* outcome of the last completed call
    moduleDepsEqualDistDeps, \* dist.suite.getMxCompatibility().moduleDepsEqualDistDeps()
    moduledeps,    \* the moduledeps attribute of each distribution
    module_deps,   \* the '.module_deps' attribute of each distribution (None: not set)
    deps,          \* the direct dependencies of each dependency, in walk order
    changes,       \* number of times a moduledeps attribute was redeclared
    firstReturned, \* per distribution, the first list get_module_deps returned (history)
    project,       \* the attributes of each Java project
    moduleName,    \* the moduleName attribute of each distribution (None: not set)
    archive,       \* the jar of each distribution: archive name -> lines of the entry
    javaModule,    \* the '.javaModule' attribute of each distribution (None: not set)
    staging,       \* the module staging directories: path -> (file name -> lines)
    jars,          \* the module jars: path -> (file name -> lines)
    pickles,       \* the pickled descriptors: path -> pickled object
    stack,         \* the call stack: the frames of make_java_module and save
    saved,         \* the descriptor object of the last finished save, before and after (history)
    calls          \* the number of calls made from the top level

buildVars == <<project, moduleName, archive, javaModule, staging, jars, pickles, stack, saved, calls>>
depVarsButCache == <<moduleDepsEqualDistDeps, moduledeps, deps, changes, firstReturned>>
depVars == <<depVarsButCache, module_deps>>
envVars == <<depVars, buildVars>>
vars == <<args, ret, depVars, buildVars>>

None == [none |-> TRUE]
Str(s) == [str |-> s]
Ref(n) == [ref |-> n]
Some(v) == [val |-> v]

----------------------------------------------------------------------------
(* Strings *)

\* The characters used, in ASCII order (str comparison in Python 2 is bytewise).
Alphabet ==
    << "-", ".", "/", ":", "<", ">",
       "A", "B", "C", "D", "E", "F", "G", "H", "I", "J", "K", "L", "M",
       "N", "O", "P", "Q", "R", "S", "T", "U", "V", "W", "X", "Y", "Z",
       "_",
       "a", "b", "c", "d", "e", "f", "g", "h", "i", "j", "k", "l", "m",
       "n", "o", "p", "q", "r", "s", "t", "u", "v", "w", "x", "y", "z" >>

Ord(c) == CHOOSE i \in 1..Len(Alphabet) : Alphabet[i] = c

UpperA == Ord("A")
UpperZ == Ord("Z")
LowerA == Ord("a")

\* str.lower() on one character
LowerChar(c) ==
    IF Ord(c) >= UpperA /\ Ord(c) <= UpperZ
    THEN Alphabet[LowerA + (Ord(c) - UpperA)]
    ELSE c

\* s.lower()
lower(s) == [i \in 1..Len(s) |-> LowerChar(s[i])]

\* s.replace(old, new) for one-character old and new
replace(s, old, new) == [i \in 1..Len(s) |-> IF s[i] = old THEN new ELSE s[i]]

\* s.startswith(prefix)
startswith(s, prefix) ==
    Len(s) >= Len(prefix) /\ SubSeq(s, 1, Len(prefix)) = prefix

\* s[n:]
StrFrom(s, n) == SubSeq(s, n + 1, Len(s))

\* cmp(a, b) < 0 on strings
RECURSIVE StrLess(_, _)
StrLess(a, b) ==
    IF Len(a) = 0 THEN Len(b) > 0
    ELSE IF Len(b) = 0 THEN FALSE
    ELSE IF Head(a) = Head(b) THEN StrLess(Tail(a), Tail(b))
    ELSE Ord(Head(a)) < Ord(Head(b))

\* sorted(iterable of distinct strings)
RECURSIVE sorted(_)
sorted(S) ==
    IF S = {} THEN <<>>
    ELSE LET m == CHOOSE x \in S : \A y \in S : x = y \/ StrLess(x, y)
         IN  <<m>> \o sorted(S \ {m})

\* sep.join(seq)
RECURSIVE join(_, _)
join(sep, seq) ==
    IF Len(seq) = 0 THEN <<>>
    ELSE IF Len(seq) = 1 THEN seq[1]
    ELSE seq[1] \o sep \o join(sep, Tail(seq))

\* concatenation of a sequence of sequences
RECURSIVE Flatten(_)
Flatten(ss) == IF Len(ss) = 0 THEN <<>> ELSE Head(ss) \o Flatten(Tail(ss))

\* all enumerations (iteration orders) of a finite set
Perms(S) ==
    {f \in [1..Cardinality(S) -> S] : \A i, j \in 1..Cardinality(S) : f[i] = f[j] => i = j}

EmptyDict == << >>

----------------------------------------------------------------------------
(* JavaModuleDescriptor *)

AssertionError == [error |-> "AssertionError"]

JavaModuleDescriptorNoAssert(name, exports, requires, uses, provides, packages, concealedRequires, jarpath, dist, modulepath, boot) ==
    LET exportedPackages == DOMAIN exports
        pkgs == IF packages = None THEN exportedPackages ELSE packages.val
    IN  [ name |-> name,
          exports |-> exports,
          requires |-> requires,
          concealedRequires |-> concealedRequires,
          uses |-> uses,
          provides |-> provides,
          packages |-> pkgs,
          conceals |-> pkgs \ exportedPackages,
          jarpath |-> jarpath,
          dist |-> dist,
          modulepath |-> modulepath,
          boot |-> boot ]

\* JavaModuleDescriptor.__init__.  packages is None or Some(set of packages);
\* the result is the descriptor or AssertionError.
JavaModuleDescriptor(name, exports, requires, uses, provides, packages, concealedRequires, jarpath, dist, modulepath, boot) ==
    LET exportedPackages == DOMAIN exports
        pkgs == IF packages = None THEN exportedPackages ELSE packages.val
    IN  IF ~(Cardinality(DOMAIN exports) = 0 \/ exportedPackages \subseteq pkgs)
        THEN AssertionError
        ELSE [ name |-> name,
               exports |-> exports,
               requires |-> requires,
               concealedRequires |-> concealedRequires,
               uses |-> uses,
               provides |-> provides,
               packages |-> pkgs,
               conceals |-> pkgs \ exportedPackages,
               jarpath |-> jarpath,
               dist |-> dist,
               modulepath |-> modulepath,
               boot |-> boot ]

IsDescriptor(x) == "name" \in DOMAIN x

----------------------------------------------------------------------------
(* lookup_package *)

NotFound == [module |-> None, visibility |-> "None"]

lookup_package_last(modulepath, package, importer) ==
    LET hits == {i \in 1..Len(modulepath) :
                    package \in DOMAIN modulepath[i].exports
                    \/ package \in modulepath[i].conceals}
    IN  IF hits = {} THEN NotFound
        ELSE LET i == CHOOSE k \in hits : \A j \in hits : j <= k
                 jmd == modulepath[i]
             IN  IF package \in DOMAIN jmd.exports
                    /\ (Cardinality(jmd.exports[package]) = 0
                        \/ importer \in jmd.exports[package])
                 THEN [module |-> jmd, visibility |-> "exported"]
                 ELSE [module |-> jmd, visibility |-> "concealed"]

\* The result (jmd, visibility) is the record [module, visibility]; the
\* visibility None of the pair (None, None) is the string "None".
RECURSIVE lookup_package(_, _, _)
lookup_package(modulepath, package, importer) ==
    IF Len(modulepath) = 0 THEN NotFound
    ELSE LET jmd == Head(modulepath)
         IN  IF package \in DOMAIN jmd.exports
             THEN IF Cardinality(jmd.exports[package]) = 0
                     \/ importer \in jmd.exports[package]
                  THEN [module |-> jmd, visibility |-> "exported"]
                  ELSE [module |-> jmd, visibility |-> "concealed"]
             ELSE IF package \in jmd.conceals
             THEN [module |-> jmd, visibility |-> "concealed"]
             ELSE lookup_package(Tail(modulepath), package, importer)

----------------------------------------------------------------------------
(* The dependency graph (the part of mx this file reads) *)

DIST_APP == <<"A", "P", "P">>
DIST_LIB == <<"L", "I", "B", "_", "X">>
PROJ_APP == <<"c", "o", "m", ".", "a", "p", "p">>
PROJ_LIB == <<"c", "o", "m", ".", "l", "i", "b">>
JDK_LIB == <<"J", "V", "M", "C", "I">>
NATIVE_LIB == <<"N", "A", "T", "I", "V", "E">>

Distributions == {DIST_APP, DIST_LIB}
Dependencies == {DIST_APP, DIST_LIB, PROJ_APP, PROJ_LIB, JDK_LIB, NATIVE_LIB}

KindOf ==
    (DIST_APP :> "JARDistribution") @@ (DIST_LIB :> "JARDistribution")
    @@ (PROJ_APP :> "JavaProject") @@ (PROJ_LIB :> "JavaProject")
    @@ (JDK_LIB :> "JdkLibrary") @@ (NATIVE_LIB :> "Library")

isJARDistribution(dep) == KindOf[dep] = "JARDistribution"
isJavaProject(dep) == KindOf[dep] = "JavaProject"
isJdkLibrary(dep) == KindOf[dep] = "JdkLibrary"
isJreLibrary(dep) == KindOf[dep] = "JreLibrary"

\* The dependency graph of the make_java_module scenarios
DepsOf ==
    (DIST_APP :> <<PROJ_APP, DIST_LIB>>)
    @@ (DIST_LIB :> <<PROJ_LIB, JDK_LIB>>)
    @@ (PROJ_APP :> <<JDK_LIB>>)
    @@ (PROJ_LIB :> <<JDK_LIB>>)
    @@ (JDK_LIB :> <<>>)
    @@ (NATIVE_LIB :> <<>>)

\* The build state of the specifications that build nothing
BuildIdle ==
    /\ project = <<>>
    /\ moduleName = [d \in Distributions |-> None]
    /\ archive = [d \in Distributions |-> <<>>]
    /\ javaModule = [d \in Distributions |-> None]
    /\ staging = <<>>
    /\ jars = <<>>
    /\ pickles = <<>>
    /\ stack = <<>>
    /\ saved = None
    /\ calls = 0

\* The state of the pure-function specifications' unused environment
EnvIdle ==
    /\ moduleDepsEqualDistDeps = FALSE
    /\ moduledeps = [d \in Distributions |-> <<>>]
    /\ module_deps = [d \in Distributions |-> None]
    /\ deps = DepsOf
    /\ changes = 0
    /\ firstReturned = [d \in Distributions |-> None]
    /\ BuildIdle

----------------------------------------------------------------------------
(* get_module_deps *)

\* dist.archived_deps(): the projects and libraries archived in dist (the
\* dependencies reached from dist without entering another distribution).
RECURSIVE ArchivedFrom(_, _)
ArchivedFrom(todo, acc) ==
    IF Len(todo) = 0 THEN acc
    ELSE LET dep == Head(todo)
         IN  IF isJARDistribution(dep) \/ (\E i \in 1..Len(acc) : acc[i] = dep)
             THEN ArchivedFrom(Tail(todo), acc)
             ELSE ArchivedFrom(Tail(todo), ArchivedFrom(deps[dep], acc) \o <<dep>>)

archived_deps(dist) == ArchivedFrom(deps[dist], <<>>)

\* _preVisit (lines 213-214)
preVisit(dst) == ~isJreLibrary(dst) /\ ~isJdkLibrary(dst)

\* _visit (lines 206-212); st is the state of the walk: the visited set, the
\* moduledeps list and the abort raised so far (None: none)
visit(dep, dist, st) ==
    IF dep # dist
    THEN IF isJavaProject(dep) \/ isJARDistribution(dep)
         THEN IF \A i \in 1..Len(st.moduledeps) : st.moduledeps[i] # dep
              THEN [st EXCEPT !.moduledeps = Append(@, dep)]
              ELSE st
         ELSE [st EXCEPT !.abort =
                  [text |-> "modules can (currently) only include JAR distributions and Java projects: ",
                   name |-> dep]]
    ELSE st

\* mx.walk_deps(roots, preVisit, visit): depth first from each root in order,
\* each dependency at most once; a dependency preVisit rejects is neither
\* visited nor walked further; visit is called after the dependency's own
\* dependencies were walked.  An abort ends the walk.
RECURSIVE WalkDep(_, _, _)
RECURSIVE WalkAll(_, _, _)
WalkDep(dep, dist, st) ==
    IF st.abort # None \/ dep \in st.visited THEN st
    ELSE IF ~preVisit(dep) THEN st
    ELSE LET below == WalkAll(deps[dep], dist, [st EXCEPT !.visited = @ \cup {dep}])
         IN  IF below.abort # None THEN below ELSE visit(dep, dist, below)

WalkAll(todo, dist, st) ==
    IF Len(todo) = 0 THEN st
    ELSE WalkAll(Tail(todo), dist, WalkDep(Head(todo), dist, st))

walk_deps(roots, dist) ==
    WalkAll(roots, dist, [visited |-> {}, moduledeps |-> <<>>, abort |-> None])

\* The first root that is not a JAR distribution (lines 201-203), or 0
BadRoot(roots) ==
    IF \A i \in 1..Len(roots) : isJARDistribution(roots[i]) THEN 0
    ELSE CHOOSE i \in 1..Len(roots) :
            /\ ~isJARDistribution(roots[i])
            /\ \A j \in 1..(i - 1) : isJARDistribution(roots[j])

get_module_deps_nocache(dist) ==
    IF moduleDepsEqualDistDeps
    THEN [status |-> "return", value |-> archived_deps(dist), abort |-> None,
          walked |-> FALSE, module_deps |-> module_deps[dist]]
    ELSE LET roots == moduledeps[dist]
             w == walk_deps(roots, dist)
         IN  IF Len(roots) = 0
             THEN [status |-> "return", value |-> roots, abort |-> None,
                   walked |-> FALSE, module_deps |-> module_deps[dist]]
             ELSE IF BadRoot(roots) # 0
             THEN [status |-> "abort", value |-> <<>>,
                   abort |-> [text |-> "moduledeps can (currently) only include JAR distributions: ",
                              name |-> roots[BadRoot(roots)]],
                   walked |-> FALSE, module_deps |-> module_deps[dist]]
             ELSE IF w.abort # None
             THEN [status |-> "abort", value |-> <<>>, abort |-> w.abort,
                   walked |-> TRUE, module_deps |-> module_deps[dist]]
             ELSE [status |-> "return", value |-> w.moduledeps, abort |-> None,
                   walked |-> TRUE, module_deps |-> module_deps[dist]]

get_module_deps_projectroots(dist) ==
    LET roots == moduledeps[dist]
        w == walk_deps(roots, dist)
    IN  IF moduleDepsEqualDistDeps
        THEN [status |-> "return", value |-> archived_deps(dist), abort |-> None,
              walked |-> FALSE, module_deps |-> module_deps[dist]]
        ELSE IF module_deps[dist] # None
        THEN [status |-> "return", value |-> module_deps[dist].val, abort |-> None,
              walked |-> FALSE, module_deps |-> module_deps[dist]]
        ELSE IF Len(roots) = 0
        THEN [status |-> "return", value |-> roots, abort |-> None,
              walked |-> FALSE, module_deps |-> module_deps[dist]]
        ELSE IF w.abort # None
        THEN [status |-> "abort", value |-> <<>>, abort |-> w.abort,
              walked |-> TRUE, module_deps |-> module_deps[dist]]
        ELSE [status |-> "return", value |-> w.moduledeps, abort |-> None,
              walked |-> TRUE, module_deps |-> Some(w.moduledeps)]

\* get_module_deps(dist): the outcome (the list returned, or the abort), whether
\* the graph was walked, and the value of dist's '.module_deps' attribute after
\* the call.
get_module_deps(dist) ==
    IF moduleDepsEqualDistDeps
    THEN [status |-> "return", value |-> archived_deps(dist), abort |-> None,
          walked |-> FALSE, module_deps |-> module_deps[dist]]
    ELSE IF module_deps[dist] # None
    THEN [status |-> "return", value |-> module_deps[dist].val, abort |-> None,
          walked |-> FALSE, module_deps |-> module_deps[dist]]
    ELSE LET roots == moduledeps[dist]
             w == walk_deps(roots, dist)
         IN  IF Len(roots) = 0
             THEN [status |-> "return", value |-> roots, abort |-> None,
                   walked |-> FALSE, module_deps |-> module_deps[dist]]
             ELSE IF BadRoot(roots) # 0
             THEN [status |-> "abort", value |-> <<>>,
                   abort |-> [text |-> "moduledeps can (currently) only include JAR distributions: ",
                              name |-> roots[BadRoot(roots)]],
                   walked |-> FALSE, module_deps |-> module_deps[dist]]
             ELSE IF w.abort # None
             THEN [status |-> "abort", value |-> <<>>, abort |-> w.abort,
                   walked |-> TRUE, module_deps |-> module_deps[dist]]
             ELSE [status |-> "return", value |-> w.moduledeps, abort |-> None,
                   walked |-> TRUE, module_deps |-> Some(w.moduledeps)]

----------------------------------------------------------------------------
(* as_module_info *)

\* The lines printed for self.requires (lines 140-142)
RequiresLines(self) ==
    LET ks == sorted(DOMAIN self.requires)
    IN  [i \in 1..Len(ks) |->
            LET modifiers == self.requires[ks[i]]
                modifiers_string ==
                    IF Cardinality(modifiers) # 0
                    THEN join(<<" ">>, sorted(modifiers)) \o <<" ">>
                    ELSE <<>>
            IN  <<"    requires ">> \o modifiers_string \o ks[i] \o <<";", "\n">>]

\* The lines printed for self.exports (lines 143-145)
ExportsLines(self) ==
    LET ks == sorted(DOMAIN self.exports)
    IN  [i \in 1..Len(ks) |->
            LET targets == self.exports[ks[i]]
                targets_string ==
                    IF Cardinality(targets) # 0
                    THEN <<" to ">> \o join(<<", ">>, sorted(targets))
                    ELSE <<>>
            IN  <<"    exports ">> \o ks[i] \o targets_string \o <<";", "\n">>]

\* The lines printed for self.uses (lines 146-147)
UsesLines(self) ==
    LET ks == sorted(self.uses)
    IN  [i \in 1..Len(ks) |-> <<"    uses ">> \o ks[i] \o <<";", "\n">>]


\* The lines printed for self.provides (lines 148-149).  providers is a set and
\* is joined in its iteration order: iter[service] is the order in which this
\* object's set enumerates self.provides[service].
ProvidesLines(self, iter) ==
    LET ks == sorted(DOMAIN self.provides)
    IN  [i \in 1..Len(ks) |->
            <<"    provides ">> \o ks[i] \o <<" with ">>
                \o join(<<", ">>, iter[ks[i]]) \o <<";", "\n">>]

\* The comment lines for self.conceals (lines 150-151)
ConcealsLines(self) ==
    LET ks == sorted(self.conceals)
    IN  [i \in 1..Len(ks) |-> <<"    // conceals: ">> \o ks[i] \o <<"\n">>]

\* The comment lines for self.concealedRequires (lines 158-161)
ConcealedRequiresLines(self) ==
    LET ks == sorted(DOMAIN self.concealedRequires)
    IN  Flatten([i \in 1..Len(ks) |->
            LET ps == sorted(self.concealedRequires[ks[i]])
            IN  [j \in 1..Len(ps) |->
                    <<"    // concealed-requires: ">> \o ks[i] \o <<"/">> \o ps[j]
                        \o <<"\n">>]])

\* The iteration orders a descriptor's provider sets can have
IterOrders(self) ==
    {f \in [DOMAIN self.provides -> UNION {Perms(self.provides[s]) : s \in DOMAIN self.provides}] :
        \A s \in DOMAIN self.provides : f[s] \in Perms(self.provides[s])}

\* JavaModuleDescriptor.as_module_info: the text, as a sequence of literal
\* pieces and characters.  'if self.jarpath' (line 152) is false of None and
\* of the empty string.
as_module_info(self, iter) ==
    <<"module ">> \o self.name \o <<" {", "\n">>
    \o Flatten(RequiresLines(self))
    \o Flatten(ExportsLines(self))
    \o Flatten(UsesLines(self))
    \o Flatten(ProvidesLines(self, iter))
    \o Flatten(ConcealsLines(self))
    \o (IF self.jarpath # None /\ Len(self.jarpath.str) # 0
        THEN <<"    // jarpath: ">> \o self.jarpath.str \o <<"\n">> ELSE <<>>)
    \o (IF self.dist # None
        THEN <<"    // dist: ">> \o self.dist.ref \o <<"\n">> ELSE <<>>)
    \o (IF Len(self.modulepath) # 0
        THEN <<"    // modulepath: ">>
             \o join(<<", ">>, [i \in 1..Len(self.modulepath) |-> self.modulepath[i].name])
             \o <<"\n">>
        ELSE <<>>)
    \o (IF DOMAIN self.concealedRequires # {}
        THEN Flatten(ConcealedRequiresLines(self)) ELSE <<>>)
    \o <<"}", "\n">>

----------------------------------------------------------------------------
(* Names used by the bounded inputs *)

TRANSITIVE == <<"t", "r", "a", "n", "s", "i", "t", "i", "v", "e">>
STATIC == <<"s", "t", "a", "t", "i", "c">>

M_A == <<"m", ".", "a">>
M_B == <<"m", ".", "b">>
M_C == <<"m", ".", "c">>
PKG_P == <<"c", "o", "m", ".", "p">>
PKG_Q == <<"c", "o", "m", ".", "q">>
IMPORTER_1 == <<"m", ".", "o", "n", "e">>
IMPORTER_2 == <<"m", ".", "t", "w", "o">>

\* Bound on the length of the module path handed to lookup_package
MaxPathLen == 2

\* All partial maps from keys in K to values in V
PartialMaps(K, V) == UNION {[D -> V] : D \in SUBSET K}

\* The descriptors that can be constructed directly from the bounded inputs
LookupDescriptors ==
    {d \in {JavaModuleDescriptor(n, e, EmptyDict, {}, EmptyDict, Some(p),
                                 EmptyDict, None, None, <<>>, FALSE) :
                n \in {M_A, M_B, M_C},
                e \in PartialMaps({PKG_P, PKG_Q}, {{}, {IMPORTER_1}}),
                p \in SUBSET {PKG_P, PKG_Q}} : IsDescriptor(d)}

ModulePaths ==
    UNION {[1..n -> LookupDescriptors] : n \in 0..MaxPathLen}

LookupInit ==
    /\ args \in [modulepath : ModulePaths,
                 package : {PKG_P, PKG_Q},
                 importer : {IMPORTER_1, IMPORTER_2}]
    /\ ret = [op |-> "none"]
    /\ EnvIdle

LookupPackage ==
    /\ ret.op = "none"
    /\ ret' = [op |-> "lookup_package",
               result |-> lookup_package(args.modulepath, args.package, args.importer)]
    /\ UNCHANGED <<args, envVars>>

LookupNext == LookupPackage

SpecLookup == LookupInit /\ [][LookupNext]_vars

\* C2: lookup_package returns the first descriptor in path order that defines
\* the package (as an exports key or in conceals); the visibility is
\* "exported" exactly when the package is an exports key of that descriptor
\* whose target set is empty or contains the importer, and "concealed"
\* otherwise; (None, None) is returned exactly when no descriptor on the path
\* defines the package.
C2_FirstMatch ==
    ret.op = "lookup_package" =>
        LET path == args.modulepath
            definers == {i \in 1..Len(path) :
                            args.package \in path[i].packages}
        IN  /\ (definers = {}) <=> (ret.result = NotFound)
            /\ (ret.result.module = None) <=> (definers = {})
            /\ definers # {} =>
                 LET first == CHOOSE i \in definers : \A j \in definers : i <= j
                     d == path[first]
                     open == /\ args.package \in DOMAIN d.exports
                             /\ (d.exports[args.package] = {}
                                 \/ args.importer \in d.exports[args.package])
                 IN  /\ ret.result.module = d
                     /\ ret.result.visibility \in {"exported", "concealed"}
                     /\ (ret.result.visibility = "exported") <=> open

\* C2 witness: a path [A, B] of two different modules that both export the
\* package, A only to another importer: A is returned, concealed.
C2_Witness ==
    /\ ret.op = "lookup_package"
    /\ Len(args.modulepath) = 2
    /\ args.modulepath[1].name # args.modulepath[2].name
    /\ args.package \in DOMAIN args.modulepath[1].exports
    /\ args.package \in DOMAIN args.modulepath[2].exports
    /\ args.modulepath[1].exports[args.package] = {IMPORTER_1}
    /\ args.modulepath[2].exports[args.package] = {}
    /\ args.importer = IMPORTER_2
    /\ ret.result = [module |-> args.modulepath[1], visibility |-> "concealed"]

----------------------------------------------------------------------------
(* Rendering of two descriptor objects with equal state *)

SVC_S == <<"x", ".", "S">>
SVC_T == <<"x", ".", "T">>
IMPL_1 == <<"x", ".", "I", "a">>
IMPL_2 == <<"x", ".", "I", "b">>
IMPL_3 == <<"x", ".", "I", "c">>

\* Bound on the number of providers registered for one service
MaxProviders == 2

ProviderSets ==
    {P \in SUBSET {IMPL_1, IMPL_2, IMPL_3} : P # {} /\ Cardinality(P) <= MaxProviders}

RenderDescriptors ==
    {JavaModuleDescriptor(M_A, e, r, u, pr, Some({PKG_P, PKG_Q}), c,
                          j, Ref(M_A), <<>>, FALSE) :
        j \in {None, Str(<<>>), Str(M_A)},
        e \in PartialMaps({PKG_P}, {{}, {IMPORTER_1, IMPORTER_2}}),
        r \in PartialMaps({M_B, M_C}, {{}, {STATIC, TRANSITIVE}}),
        u \in SUBSET {SVC_S},
        pr \in {f \in PartialMaps({SVC_S, SVC_T}, ProviderSets) :
                    SVC_T \in DOMAIN f => f[SVC_T] = {IMPL_1}},
        c \in PartialMaps({M_B}, {{PKG_P, PKG_Q}})}

RenderInit ==
    /\ args \in UNION {{[jmd |-> d, iter1 |-> f, iter2 |-> g] :
                            f \in IterOrders(d), g \in IterOrders(d)} :
                       d \in RenderDescriptors}
    /\ ret = [op |-> "none"]
    /\ EnvIdle

\* Two descriptor objects with the same state (args.jmd), whose provider sets
\* enumerate in the orders iter1 and iter2, are rendered.
AsModuleInfo ==
    /\ ret.op = "none"
    /\ ret' = [op |-> "as_module_info",
               text1 |-> as_module_info(args.jmd, args.iter1),
               text2 |-> as_module_info(args.jmd, args.iter2)]
    /\ UNCHANGED <<args, envVars>>

RenderNext == AsModuleInfo

SpecRender == RenderInit /\ [][RenderNext]_vars

\* C4: two descriptors with equal state render to byte-identical text whatever
\* the iteration order of their maps and sets, the provider sets included.
C4_Deterministic ==
    ret.op = "as_module_info" => ret.text1 = ret.text2

----------------------------------------------------------------------------
(* Calls of get_module_deps *)

\* Sequences without repetition, of length at most n, over S
SeqsNoRep(S, n) ==
    UNION {{q \in [1..k -> S] : \A i, j \in 1..k : q[i] = q[j] => i = j} : k \in 0..n}

\* Bound on the number of direct dependencies drawn for one dependency
MaxDeps == 2
\* Bound on the number of moduledeps roots of a distribution
MaxRoots == 2
\* Bound on the number of times a moduledeps attribute is redeclared
MaxChanges == 1

\* The acyclic dependency graphs the walk is checked on
Graphs ==
    {(DIST_APP :> a) @@ (DIST_LIB :> l) @@ (PROJ_APP :> pa) @@ (PROJ_LIB :> pl)
        @@ (JDK_LIB :> j) @@ (NATIVE_LIB :> <<>>) :
        a \in {<<PROJ_APP>>, <<PROJ_APP, NATIVE_LIB>>},
        l \in SeqsNoRep({PROJ_LIB, JDK_LIB, NATIVE_LIB}, MaxDeps),
        pa \in {<<>>, <<PROJ_LIB>>},
        pl \in SeqsNoRep({JDK_LIB, NATIVE_LIB}, MaxDeps),
        j \in {<<>>, <<NATIVE_LIB>>}}

\* A call get_module_deps(dist) from the top level
GetModuleDeps(dist) ==
    LET r == get_module_deps(dist)
    IN  /\ ret' = [op |-> "get_module_deps", dist |-> dist, status |-> r.status,
                   value |-> r.value, abort |-> r.abort, walked |-> r.walked,
                   at |-> changes]
        /\ module_deps' = [module_deps EXCEPT ![dist] = r.module_deps]
        /\ firstReturned' =
              IF r.status = "return" /\ firstReturned[dist] = None
              THEN [firstReturned EXCEPT ![dist] = Some([value |-> r.value, walked |-> r.walked])]
              ELSE firstReturned
        /\ UNCHANGED <<args, moduleDepsEqualDistDeps, moduledeps, deps, changes, buildVars>>

\* The build files are reloaded with another moduledeps attribute for dist
Redeclare(dist, roots) ==
    /\ changes < MaxChanges
    /\ roots # moduledeps[dist]
    /\ moduledeps' = [moduledeps EXCEPT ![dist] = roots]
    /\ changes' = changes + 1
    /\ UNCHANGED <<args, ret, moduleDepsEqualDistDeps, module_deps, deps, firstReturned, buildVars>>

WalkInit ==
    /\ args = [op |-> "none"]
    /\ ret = [op |-> "none"]
    /\ moduleDepsEqualDistDeps = FALSE
    /\ deps \in Graphs
    /\ moduledeps \in {(DIST_APP :> roots) @@ (DIST_LIB :> <<>>) :
                          roots \in SeqsNoRep(Dependencies, MaxRoots)}
    /\ module_deps = [d \in Distributions |-> None]
    /\ changes = 0
    /\ firstReturned = [d \in Distributions |-> None]
    /\ BuildIdle

WalkNext == \E dist \in Distributions : GetModuleDeps(dist)

SpecWalk == WalkInit /\ [][WalkNext]_vars

DepsInit ==
    /\ args = [op |-> "none"]
    /\ ret = [op |-> "none"]
    /\ moduleDepsEqualDistDeps \in BOOLEAN
    /\ deps = DepsOf
    /\ moduledeps \in [Distributions -> SeqsNoRep(Distributions, MaxRoots)]
    /\ module_deps = [d \in Distributions |-> None]
    /\ changes = 0
    /\ firstReturned = [d \in Distributions |-> None]
    /\ BuildIdle

DepsNext ==
    \/ \E dist \in Distributions : GetModuleDeps(dist)
    \/ \E dist \in Distributions, roots \in SeqsNoRep(Distributions, MaxRoots) :
          Redeclare(dist, roots)

SpecDeps == DepsInit /\ [][DepsNext]_vars

\* The dependencies reached from the roots along paths on which no dependency
\* (the end of the path included) is a JRE or JDK library
RECURSIVE ReachClosure(_)
ReachClosure(R) ==
    LET more == {m \in Dependencies :
                    /\ preVisit(m)
                    /\ \E n \in R : \E i \in 1..Len(deps[n]) : deps[n][i] = m}
    IN  IF more \subseteq R THEN R ELSE ReachClosure(R \cup more)

Reached(roots) ==
    ReachClosure({roots[i] : i \in 1..Len(roots)} \cap {m \in Dependencies : preVisit(m)})

Permitted(dep) == isJARDistribution(dep) \/ isJavaProject(dep)

ValueSet(q) == {q[i] : i \in 1..Len(q)}

\* C6 as stated: a root or reached dependency that is neither a JAR
\* distribution nor a Java project aborts the call with an error naming such a
\* dependency, and when there is none the call returns and every JAR
\* distribution or Java project, a root or reached below one, is in the list.
C6_AnyPermittedRoot ==
    (ret.op = "get_module_deps" /\ ~moduleDepsEqualDistDeps) =>
        LET roots == moduledeps[ret.dist]
            offenders == {n \in (Reached(roots) \cup ValueSet(roots)) \ {ret.dist} :
                             ~Permitted(n)}
        IN  /\ offenders # {} => (ret.status = "abort" /\ ret.abort.name \in offenders)
            /\ offenders = {} =>
                  /\ ret.status = "return"
                  /\ \A n \in Reached(roots) \ {ret.dist} : n \in ValueSet(ret.value)

\* C6 amended: the call aborts exactly when a root is not a JAR distribution or
\* a dependency that is neither a JAR distribution nor a Java project is
\* reached; the error names such a root or dependency; otherwise the list
\* returned holds, once each, every JAR distribution and Java project reached
\* other than the distribution itself.
C6_Walk ==
    (ret.op = "get_module_deps" /\ ~moduleDepsEqualDistDeps) =>
        LET roots == moduledeps[ret.dist]
            offenders == {n \in Reached(roots) \ {ret.dist} : ~Permitted(n)}
            badroots == {roots[i] : i \in {j \in 1..Len(roots) : ~isJARDistribution(roots[j])}}
        IN  /\ (ret.status = "abort") <=> (offenders \cup badroots # {})
            /\ ret.status = "abort" => ret.abort.name \in offenders \cup badroots
            /\ badroots # {} => (ret.status = "abort" /\ ret.abort.name \in badroots)
            /\ ret.status = "return" =>
                  /\ ValueSet(ret.value) = Reached(roots) \ {ret.dist}
                  /\ Cardinality(ValueSet(ret.value)) = Len(ret.value)

\* C6 witnesses: a Java project root aborts the call; a walk through a JAR
\* distribution root returns a project reached below it while a JDK library
\* with a native library below it is pruned.
C6_Witness ==
    /\ ret.op = "get_module_deps"
    /\ ret.dist = DIST_APP
    /\ moduledeps[DIST_APP] = <<DIST_LIB>>
    /\ deps[DIST_LIB] = <<PROJ_LIB, JDK_LIB>>
    /\ deps[JDK_LIB] = <<NATIVE_LIB>>
    /\ ret.status = "return"
    /\ ret.value = <<PROJ_LIB, DIST_LIB>>

\* C8 as stated: once a call for a distribution has returned a list, every
\* later call for it returns that list without walking the graph, whatever
\* happened to its declared moduledeps in between.
C8_AnyFirstCall ==
    [][(changes' = changes /\ ret'.op = "get_module_deps"
            /\ firstReturned[ret'.dist] # None)
        => (/\ ret'.status = "return"
            /\ ret'.value = firstReturned[ret'.dist].val.value
            /\ ~ret'.walked)]_vars

\* C8 amended: once a call for a distribution has walked the graph from
\* non-empty moduledeps roots and returned a list, every later call for that
\* distribution returns that list (the one cached for it, not another
\* distribution's) without walking the graph, whatever happened to its
\* declared moduledeps in between.
C8_Memoized ==
    [][(changes' = changes /\ ret'.op = "get_module_deps"
            /\ firstReturned[ret'.dist] # None
            /\ firstReturned[ret'.dist].val.walked)
        => (/\ ret'.status = "return"
            /\ ret'.value = firstReturned[ret'.dist].val.value
            /\ module_deps'[ret'.dist] = Some(ret'.value)
            /\ ~ret'.walked)]_vars

\* C8 witness: a call made after the moduledeps of the distribution were
\* redeclared returned the cached list, which a walk from the roots now
\* declared would not produce, while the other distribution has another entry.
C8_Witness ==
    /\ ret.op = "get_module_deps"
    /\ ~moduleDepsEqualDistDeps
    /\ ret.at > 0
    /\ ret.status = "return"
    /\ ~ret.walked
    /\ firstReturned[ret.dist] # None
    /\ firstReturned[ret.dist].val.walked
    /\ ret.value = firstReturned[ret.dist].val.value
    /\ walk_deps(moduledeps[ret.dist], ret.dist).moduledeps # ret.value
    /\ \E other \in Distributions \ {ret.dist} :
          module_deps[other] # None /\ module_deps[other] # module_deps[ret.dist]

----------------------------------------------------------------------------
(* The build environment: the JDK, the distributions' files *)

PKG_COM_APP == <<"c", "o", "m", ".", "a", "p", "p">>
PKG_COM_LIB == <<"c", "o", "m", ".", "l", "i", "b">>
PKG_COM_LIB_IMPL == <<"c", "o", "m", ".", "l", "i", "b", ".", "i">>
PKG_COM_NOPE == <<"c", "o", "m", ".", "n", "o", "p", "e">>
PKG_JAVA_LANG == <<"j", "a", "v", "a", ".", "l", "a", "n", "g">>
PKG_JDK_INTERNAL == <<"j", "d", "k", ".", "i">>
PACKAGE_INFO == <<"<", "p", "a", "c", "k", "a", "g", "e", "-", "i", "n", "f", "o", ">">>
JAVA_BASE == <<"j", "a", "v", "a", ".", "b", "a", "s", "e">>
JDK_X == <<"j", "d", "k", ".", "x">>
MODULE_APP == <<"a", "p", "p">>
MODULE_LIB == <<"l", "i", "b">>

\* jdk.get_modules(): java.base exports java.lang to everyone and jdk.i to jdk.x
JdkModules ==
    << JavaModuleDescriptor(JAVA_BASE, (PKG_JAVA_LANG :> {}) @@ (PKG_JDK_INTERNAL :> {JDK_X}),
                            EmptyDict, {}, EmptyDict, None, EmptyDict, None, None, <<>>, TRUE) >>

\* jdk.get_transitive_requires_keyword()
get_transitive_requires_keyword == TRANSITIVE

\* dep.is_provided_by(jdk)
is_provided_by_jdk(dep) == dep = JDK_LIB

\* mx.classpath_entries(dist, includeSelf=False): the distributions and
\* libraries dist depends on, each after its own dependencies
RECURSIVE ClasspathFrom(_, _, _)
ClasspathFrom(todo, self, acc) ==
    IF Len(todo) = 0 THEN acc
    ELSE LET dep == Head(todo)
         IN  IF dep = self \/ dep \in acc.visited
             THEN ClasspathFrom(Tail(todo), self, acc)
             ELSE LET below == ClasspathFrom(deps[dep], self,
                                             [acc EXCEPT !.visited = @ \cup {dep}])
                  IN  ClasspathFrom(Tail(todo), self,
                         IF isJavaProject(dep) THEN below
                         ELSE [below EXCEPT !.out = Append(@, dep)])

classpath_entries(dist) ==
    ClasspathFrom(deps[dist], dist, [visited |-> {}, out |-> <<>>]).out

\* Paths below dist.suite.get_output_root()
ModulesDir == <<"modules", "/">>
JarSuffix == <<".jar">>
PickledSuffix == <<".pickled">>
ModuleInfoJava == <<"module-info.java">>
ModuleInfoClass == <<"module-info.class">>

ServicesPrefix ==
    <<"M", "E", "T", "A", "-", "I", "N", "F", "/", "s", "e", "r", "v", "i", "c", "e", "s", "/">>
ClassSuffix == <<".", "c", "l", "a", "s", "s">>
DistPrefix == <<"d", "i", "s", "t", ":">>

\* f with the entries of g added or replaced (dict.update)
Update(f, g) == g @@ f

\* A call that set no attribute and created no directory
NoUpdates == [md |-> <<>>, dirs |-> {}]

\* The outcomes of a call: a return value or an abort, with the attribute
\* '.module_deps' set (md) and the directories created
Returned(value, u) ==
    [status |-> "return", value |-> value, abort |-> None,
     md |-> u.md, dirs |-> u.dirs]
Aborted(text, name, u) ==
    [status |-> "abort", value |-> None, abort |-> [text |-> text, name |-> name],
     md |-> u.md, dirs |-> u.dirs]

\* The module name derived from a distribution name (line 259)
DerivedModuleName(name) == lower(replace(name, "_", "."))

\* 'not moduleName' (line 249): the attribute is missing, None or the empty string
NotModuleName(v) == v = None \/ Len(v.str) = 0

\* get_java_module_info(dist, fatalIfNotModule): value is None or
\* Some([moduleName, moduleDir, moduleJar])
get_java_module_info(dist, fatalIfNotModule) ==
    LET Info(name) ==
            Some([moduleName |-> name,
                  moduleDir |-> ModulesDir \o name,
                  moduleJar |-> ModulesDir \o name \o JarSuffix])
    IN  IF moduleDepsEqualDistDeps
        THEN IF NotModuleName(moduleName[dist])
             THEN IF fatalIfNotModule
                  THEN Aborted("does not define a module: Distribution ", dist, NoUpdates)
                  ELSE Returned(None, NoUpdates)
             ELSE Returned(Info(moduleName[dist].str),
                           [NoUpdates EXCEPT !.dirs = {ModulesDir \o moduleName[dist].str}])
        ELSE LET g == get_module_deps(dist)
                 u == [NoUpdates EXCEPT !.md = (dist :> g.module_deps)]
             IN  IF g.status = "abort"
                 THEN [status |-> "abort", value |-> None, abort |-> g.abort,
                       md |-> u.md, dirs |-> u.dirs]
                 ELSE IF Len(g.value) = 0
                 THEN IF fatalIfNotModule
                      THEN Aborted("would be empty: Module for distribution ", dist, u)
                      ELSE Returned(None, u)
                 ELSE Returned(Info(DerivedModuleName(dist)),
                               [u EXCEPT !.dirs = {ModulesDir \o DerivedModuleName(dist)}])

----------------------------------------------------------------------------
(* make_java_module: the descriptor's maps and sets *)

\* mx._find_packages(dep, onlyPublic=True)
find_packages(dep) == project[dep].packageInfo

\* _expand_package_info(dep, packages)
expand_package_info(dep, packages) ==
    IF PACKAGE_INFO \in packages
    THEN (packages \ {PACKAGE_INFO}) \cup find_packages(dep)
    ELSE packages

\* getattr(dep, 'exports', dep.defined_java_packages())
ExportsAttr(dep) ==
    IF project[dep].exports = None THEN project[dep].defined ELSE project[dep].exports.val

\* One iteration of the loop over javaprojects (lines 328-351); st holds
\* uses, requires, concealedRequires and exports
SynthProject(dep, name, packages, allmodules, st) ==
    LET afterRuntime ==
            [k \in DOMAIN st.requires \cup project[dep].runtimeDeps |->
                IF k \in DOMAIN st.requires THEN st.requires[k] ELSE {STATIC}]
        pkgs == (project[dep].imported \cup project[dep].imports) \ packages
        hits == {pkg \in pkgs :
                    LET l == lookup_package(allmodules, pkg, name)
                    IN  l.module # None /\ l.module.name # name}
        Owner(pkg) == lookup_package(allmodules, pkg, name).module.name
        concealed == {pkg \in hits :
                         lookup_package(allmodules, pkg, name).visibility # "exported"}
        afterImports ==
            [k \in DOMAIN afterRuntime \cup {Owner(pkg) : pkg \in hits} |->
                IF k \in DOMAIN afterRuntime THEN afterRuntime[k] ELSE {}]
        concealedRequires ==
            [k \in DOMAIN st.concealedRequires \cup {Owner(pkg) : pkg \in concealed} |->
                (IF k \in DOMAIN st.concealedRequires THEN st.concealedRequires[k] ELSE {})
                \cup {pkg \in concealed : Owner(pkg) = k}]
        exported == expand_package_info(dep, ExportsAttr(dep))
    IN  [uses |-> st.uses \cup project[dep].uses,
         requires |-> afterImports,
         concealedRequires |-> concealedRequires,
         exports |-> [k \in DOMAIN st.exports \cup exported |->
                        IF k \in DOMAIN st.exports THEN st.exports[k] ELSE {}]]

RECURSIVE SynthProjects(_, _, _, _, _)
SynthProjects(todo, name, packages, allmodules, st) ==
    IF Len(todo) = 0 THEN st
    ELSE SynthProjects(Tail(todo), name, packages, allmodules,
                       SynthProject(Head(todo), name, packages, allmodules, st))

\* Lines 293-351: exports, requires, concealedRequires, uses and packages of
\* the module called name, from the module path and the requires collected
\* from the classpath entries and from moduledeps
Synthesize(name, modulepath, requires, mdeps) ==
    LET javaprojects == SelectSeq(mdeps, isJavaProject)
        packages == UNION {project[javaprojects[i]].defined : i \in 1..Len(javaprojects)}
        st == SynthProjects(javaprojects, name, packages, modulepath \o JdkModules,
                            [uses |-> {}, requires |-> requires,
                             concealedRequires |-> EmptyDict, exports |-> EmptyDict])
    IN  [exports |-> st.exports, requires |-> st.requires,
         concealedRequires |-> st.concealedRequires, uses |-> st.uses,
         packages |-> packages]

\* The service of a registration entry META-INF/services/<service>
IsServiceEntry(arcname) == startswith(arcname, ServicesPrefix) /\ arcname # ServicesPrefix
ServiceOf(arcname) == StrFrom(arcname, Len(ServicesPrefix))
ServiceClass(service) == replace(service, ".", "/") \o ClassSuffix

\* One iteration of the loop over the archives (lines 357-373); st holds the
\* staging directory's files, whether extractall has made the directory (it
\* makes it with the first entry it extracts), provides, uses and whether
\* the assertion of line 368 failed
UnpackArchive(d, st) ==
    LET names == DOMAIN archive[d]
        entries == {a \in names : IsServiceEntry(a)}
        services == {ServiceOf(a) : a \in entries}
    IN  [dir |-> Update(st.dir, archive[d]),
         made |-> st.made \/ names # {},
         failed |-> \E sv \in services : \E i \in 1..Len(sv) : sv[i] = "/",
         provides |->
            [sv \in DOMAIN st.provides \cup services |->
                (IF sv \in DOMAIN st.provides THEN st.provides[sv] ELSE {})
                \cup (IF sv \in services
                      THEN ValueSet(archive[d][ServicesPrefix \o sv]) ELSE {})],
         uses |-> st.uses \cup {sv \in services : ServiceClass(sv) \in names}]

RECURSIVE UnpackArchives(_, _)
UnpackArchives(todo, st) ==
    IF Len(todo) = 0 \/ st.failed THEN st
    ELSE UnpackArchives(Tail(todo), UnpackArchive(Head(todo), st))

\* Lines 353-373 after the staging directory was removed
Unpack(dist, mdeps, uses) ==
    UnpackArchives(<<dist>> \o SelectSeq(mdeps, isJARDistribution),
                   [dir |-> <<>>, made |-> FALSE, failed |-> FALSE,
                    provides |-> EmptyDict, uses |-> uses])

----------------------------------------------------------------------------
(* The calls: make_java_module, save, load and as_java_module as frames of
   the call stack *)

Top == stack[Len(stack)]
Idle == Len(stack) = 0

MakeFrame(dist) ==
    [fn |-> "make_java_module", pc |-> "info", dist |-> dist, info |-> None,
     i |-> 1, modulepath |-> <<>>, requires |-> EmptyDict, mdeps |-> <<>>,
     syn |-> None, un |-> None, jmd |-> None, javac |-> "not run", entry |-> None,
     got |-> None]

SaveFrame(jmd) ==
    [fn |-> "save", pc |-> "begin", self |-> jmd, before |-> jmd, dist |-> None,
     modulepath |-> <<>>, path |-> <<>>, raised |-> FALSE]

LoadFrame(dist, fatalIfNotCreated) ==
    [fn |-> "load", pc |-> "begin", dist |-> dist, fatalIfNotCreated |-> fatalIfNotCreated,
     jmd |-> None, i |-> 1, modulepath |-> <<>>, got |-> None]

AsJavaModuleFrame(dist, fatalIfNotCreated) ==
    [fn |-> "as_java_module", pc |-> "begin", dist |-> dist,
     fatalIfNotCreated |-> fatalIfNotCreated, got |-> None]

\* The module jar and the pickled descriptor of a module as they are now
\* (history: what a call of make_java_module found)
FilesOf(info) ==
    [jar |-> IF info.moduleJar \in DOMAIN jars THEN Some(jars[info.moduleJar]) ELSE None,
     pickle |-> IF info.moduleDir \o PickledSuffix \in DOMAIN pickles
                THEN Some(pickles[info.moduleDir \o PickledSuffix]) ELSE None]

\* The attributes set and directories created by a call take effect
Apply(u) ==
    /\ module_deps' = Update(module_deps, u.md)
    /\ staging' = [q \in DOMAIN staging \cup u.dirs |->
                      IF q \in DOMAIN staging THEN staging[q] ELSE <<>>]

Running(op, dist) == [op |-> op, dist |-> dist, status |-> "running"]

\* mx.abort, or an exception nothing catches: the whole call stack unwinds
Abort(text, name) ==
    /\ stack' = <<>>
    /\ ret' = [op |-> ret.op, dist |-> ret.dist, status |-> "abort",
               abort |-> [text |-> text, name |-> name], traceback |-> stack]

ReplaceTop(frame) == [stack EXCEPT ![Len(stack)] = frame]

\* The frame on top calls: it waits at pc for what the new frame returns
Call(pc, frame) == Append(ReplaceTop([Top EXCEPT !.pc = pc]), frame)

WithModuleNoModifier(frame, jmd) ==
    [frame EXCEPT !.modulepath = Append(@, jmd),
                  !.requires = Update(@, (jmd.name :> {})),
                  !.i = @ + 1,
                  !.pc = "deps"]

\* modulepath.append(jmd); requires[jmd.name] = {transitive} (lines 306-307)
WithModule(frame, jmd) ==
    [frame EXCEPT !.modulepath = Append(@, jmd),
                  !.requires = Update(@, (jmd.name :> {get_transitive_requires_keyword})),
                  !.i = @ + 1,
                  !.pc = "deps"]

\* The frame on top returns value: to the top level, or to the frame below,
\* which goes on after its call
Return(value) ==
    IF Len(stack) = 1
    THEN /\ stack' = <<>>
         /\ ret' = [op |-> ret.op, dist |-> ret.dist, status |-> "return", value |-> value]
    ELSE LET caller == stack[Len(stack) - 1]
         IN  /\ stack' = Append(SubSeq(stack, 1, Len(stack) - 2),
                                [caller EXCEPT !.got = value, !.pc = "got_" \o caller.pc])
             /\ UNCHANGED ret

unchangedEnv == <<args, depVarsButCache, project, moduleName, archive>>

\* The calls made from the top level in one run
MaxCalls == 4

\* A call from the top level
Called ==
    /\ Idle
    /\ calls < MaxCalls
    /\ calls' = calls + 1
    /\ UNCHANGED saved

\* make_java_module(dist, jdk) is called
MakeCall(dist) ==
    /\ Called
    /\ stack' = <<MakeFrame(dist)>>
    /\ ret' = Running("make_java_module", dist)
    /\ UNCHANGED <<unchangedEnv, module_deps, javaModule, staging, jars, pickles>>

\* Lines 287-291
MakeInfo ==
    /\ ~Idle /\ Top.fn = "make_java_module" /\ Top.pc = "info"
    /\ LET gi == get_java_module_info(Top.dist, FALSE)
       IN  /\ Apply(gi)
           /\ IF gi.status = "abort" THEN Abort(gi.abort.text, gi.abort.name)
              ELSE IF gi.value = None THEN Return(None)
              ELSE /\ stack' = ReplaceTop([Top EXCEPT !.info = gi.value.val, !.pc = "deps",
                                                       !.entry = FilesOf(gi.value.val)])
                   /\ UNCHANGED ret
    /\ UNCHANGED <<unchangedEnv, calls, javaModule, jars, pickles, saved>>

\* Lines 301-313: one classpath entry, or the call of get_module_deps
MakeDeps ==
    /\ ~Idle /\ Top.fn = "make_java_module" /\ Top.pc = "deps"
    /\ IF ~moduleDepsEqualDistDeps
       THEN LET g == get_module_deps(Top.dist)
            IN  /\ module_deps' = Update(module_deps, (Top.dist :> g.module_deps))
                /\ IF g.status = "abort" THEN Abort(g.abort.text, g.abort.name)
                   ELSE /\ stack' = ReplaceTop([Top EXCEPT !.mdeps = g.value, !.pc = "synth"])
                        /\ UNCHANGED ret
       ELSE LET cp == classpath_entries(Top.dist)
                dep == cp[Top.i]
            IN  /\ UNCHANGED module_deps
                /\ IF Top.i > Len(cp)
                   THEN /\ stack' = ReplaceTop([Top EXCEPT !.mdeps = archived_deps(Top.dist),
                                                           !.pc = "synth"])
                        /\ UNCHANGED ret
                   ELSE IF isJARDistribution(dep)
                   THEN /\ stack' = Call("as_java_module", AsJavaModuleFrame(dep, FALSE))
                        /\ UNCHANGED ret
                   ELSE IF (isJdkLibrary(dep) \/ isJreLibrary(dep)) /\ is_provided_by_jdk(dep)
                   THEN /\ stack' = ReplaceTop([Top EXCEPT !.i = @ + 1])
                        /\ UNCHANGED ret
                   ELSE Abort("cannot depend on as it does not define a module: ", dep)
    /\ UNCHANGED <<unchangedEnv, calls, javaModule, staging, jars, pickles, saved>>

\* Lines 303-307: the module of a classpath entry, made if it was not created
MakeDepsModule ==
    /\ ~Idle /\ Top.fn = "make_java_module"
    /\ \/ /\ Top.pc = "got_as_java_module"
          /\ IF Top.got # None
             THEN stack' = ReplaceTop(WithModule(Top, Top.got))
             ELSE stack' = Call("make_java_module", MakeFrame(classpath_entries(Top.dist)[Top.i]))
          /\ UNCHANGED ret
       \/ /\ Top.pc = "got_make_java_module"
          /\ IF Top.got = None
             THEN Abort("AttributeError: 'NoneType' object has no attribute ", <<"n", "a", "m", "e">>)
             ELSE /\ stack' = ReplaceTop(WithModule(Top, Top.got))
                  /\ UNCHANGED ret
    /\ UNCHANGED <<unchangedEnv, calls, module_deps, javaModule, staging, jars, pickles, saved>>

\* Lines 316-355: the maps and sets are computed, the staging directory is removed
MakeSynth ==
    /\ ~Idle /\ Top.fn = "make_java_module" /\ Top.pc = "synth"
    /\ stack' = ReplaceTop([Top EXCEPT
            !.syn = Synthesize(Top.info.moduleName, Top.modulepath, Top.requires, Top.mdeps),
            !.pc = "unpack"])
    /\ staging' = [q \in DOMAIN staging \ {Top.info.moduleDir} |-> staging[q]]
    /\ UNCHANGED <<unchangedEnv, calls, ret, module_deps, javaModule, jars, pickles, saved>>

\* Lines 356-373: the archives are unpacked and scanned; the staging
\* directory exists again only when an entry was extracted
MakeUnpack ==
    /\ ~Idle /\ Top.fn = "make_java_module" /\ Top.pc = "unpack"
    /\ LET un == Unpack(Top.dist, Top.mdeps, Top.syn.uses)
       IN  /\ staging' = IF un.made
                         THEN Update(staging, (Top.info.moduleDir :> un.dir))
                         ELSE staging
           /\ IF un.failed
              THEN Abort("AssertionError", <<>>)
              ELSE /\ stack' = ReplaceTop([Top EXCEPT !.un = un, !.pc = "write"])
                   /\ UNCHANGED ret
    /\ UNCHANGED <<unchangedEnv, calls, module_deps, javaModule, jars, pickles, saved>>

\* The descriptor make_java_module constructs (lines 375-376)
MadeDescriptor(frame) ==
    JavaModuleDescriptor(frame.info.moduleName, frame.syn.exports, frame.syn.requires,
                         frame.un.uses, frame.un.provides, Some(frame.syn.packages),
                         frame.syn.concealedRequires, Str(frame.info.moduleJar),
                         Ref(frame.dist), frame.modulepath, FALSE)

\* Lines 375-381: the descriptor is constructed and module-info.java written;
\* open (line 380) raises IOError when the staging directory does not exist
MakeWrite ==
    /\ ~Idle /\ Top.fn = "make_java_module" /\ Top.pc = "write"
    /\ LET jmd == MadeDescriptor(Top)
       IN  IF ~IsDescriptor(jmd)
           THEN /\ Abort("AssertionError", <<>>)
                /\ UNCHANGED staging
           ELSE IF Top.info.moduleDir \notin DOMAIN staging
           THEN /\ Abort("IOError", <<>>)
                /\ UNCHANGED staging
           ELSE \E iter \in IterOrders(jmd) :
                   /\ staging' = [staging EXCEPT ![Top.info.moduleDir] =
                                     Update(@, (ModuleInfoJava :> as_module_info(jmd, iter) \o <<"\n">>))]
                   /\ stack' = ReplaceTop([Top EXCEPT !.jmd = jmd, !.pc = "javac"])
                   /\ UNCHANGED ret
    /\ UNCHANGED <<unchangedEnv, calls, module_deps, javaModule, jars, pickles, saved>>

MakeJavacIgnoringExit ==
    /\ ~Idle /\ Top.fn = "make_java_module" /\ Top.pc = "javac"
    /\ \E exit \in {0, 1} :
          /\ staging' = [staging EXCEPT ![Top.info.moduleDir] =
                            Update(@, (ModuleInfoClass :> <<>>))]
          /\ stack' = ReplaceTop([Top EXCEPT !.pc = "archive",
                                             !.javac = IF exit = 0 THEN "ok" ELSE "failed"])
          /\ UNCHANGED ret
    /\ UNCHANGED <<unchangedEnv, calls, module_deps, javaModule, jars, pickles, saved>>

\* Lines 382-393: mx.run(javacCmd); a non-zero exit aborts
MakeJavac ==
    /\ ~Idle /\ Top.fn = "make_java_module" /\ Top.pc = "javac"
    /\ \E exit \in {0, 1} :
          IF exit = 0
          THEN /\ staging' = [staging EXCEPT ![Top.info.moduleDir] =
                                 Update(@, (ModuleInfoClass :> <<>>))]
               /\ stack' = ReplaceTop([Top EXCEPT !.pc = "archive", !.javac = "ok"])
               /\ UNCHANGED ret
          ELSE /\ Abort("javac exited with ", <<"1">>)
               /\ UNCHANGED staging
    /\ UNCHANGED <<unchangedEnv, calls, module_deps, javaModule, jars, pickles, saved>>

\* Lines 396-397: the module jar is made from the staging directory
MakeArchive ==
    /\ ~Idle /\ Top.fn = "make_java_module" /\ Top.pc = "archive"
    /\ jars' = Update(jars, (Top.info.moduleJar :> staging[Top.info.moduleDir]))
    /\ stack' = ReplaceTop([Top EXCEPT !.pc = "save"])
    /\ UNCHANGED <<unchangedEnv, calls, ret, module_deps, javaModule, staging, pickles, saved>>

\* Line 398: jmd.save()
MakeSave ==
    /\ ~Idle /\ Top.fn = "make_java_module" /\ Top.pc = "save"
    /\ stack' = Call("save", SaveFrame(Top.jmd))
    /\ UNCHANGED <<unchangedEnv, calls, ret, module_deps, javaModule, staging, jars, pickles, saved>>

\* Line 399: return jmd
MakeReturn ==
    /\ ~Idle /\ Top.fn = "make_java_module" /\ Top.pc = "got_save"
    /\ Return(Top.jmd)
    /\ UNCHANGED <<unchangedEnv, calls, module_deps, javaModule, staging, jars, pickles, saved>>

----------------------------------------------------------------------------
(* JavaModuleDescriptor.save *)

PortableByModuleName(modulepath) ==
    [i \in 1..Len(modulepath) |->
        IF modulepath[i].dist = None THEN Str(modulepath[i].name)
        ELSE Str(DistPrefix \o modulepath[i].name)]

\* Line 125: the names the members of modulepath are pickled as
Portable(modulepath) ==
    [i \in 1..Len(modulepath) |->
        IF modulepath[i].dist = None THEN Str(modulepath[i].name)
        ELSE Str(DistPrefix \o modulepath[i].dist.ref)]

RestoredUnlessRaised(frame) ==
    IF frame.raised THEN frame.self
    ELSE [frame.self EXCEPT !.modulepath = frame.modulepath, !.dist = frame.dist]

\* Lines 130-132: the object after the finally block
Restored(frame) ==
    [frame.self EXCEPT !.modulepath = frame.modulepath, !.dist = frame.dist]

\* save ends for the object self: it returns None or the exception goes on.
\* The caller's jmd is this same object
SaveEnds(self, raised, wrote) ==
    /\ saved' = [before |-> Top.before, self |-> self, raised |-> raised, wrote |-> wrote]
    /\ IF raised
       THEN /\ stack' = <<>>
            /\ ret' = [op |-> ret.op, dist |-> ret.dist, status |-> "abort",
                       abort |-> [text |-> "IOError", name |-> Top.path],
                       traceback |-> stack]
       ELSE IF Len(stack) = 1
       THEN /\ stack' = <<>>
            /\ ret' = [op |-> ret.op, dist |-> ret.dist, status |-> "return",
                       value |-> None, self |-> self]
       ELSE /\ stack' = Append(SubSeq(stack, 1, Len(stack) - 2),
                               [stack[Len(stack) - 1] EXCEPT !.pc = "got_save", !.jmd = self])
            /\ UNCHANGED ret

\* jmd.save() is called on a descriptor the caller holds
SaveCall(jmd) ==
    /\ Called
    /\ stack' = <<SaveFrame(jmd)>>
    /\ ret' = Running("save", jmd.name)
    /\ UNCHANGED <<unchangedEnv, module_deps, javaModule, staging, jars, pickles>>

\* Lines 118-126
SaveBegin ==
    /\ ~Idle /\ Top.fn = "save" /\ Top.pc = "begin"
    /\ IF Top.self.dist = None
       THEN /\ SaveEnds(Top.self, FALSE, FALSE)
            /\ UNCHANGED <<module_deps, staging>>
       ELSE LET gi == get_java_module_info(Top.self.dist.ref, TRUE)
            IN  /\ Apply(gi)
                /\ IF gi.status = "abort"
                   THEN /\ Abort(gi.abort.text, gi.abort.name)
                        /\ saved' = [before |-> Top.before, self |-> Top.self,
                                     raised |-> TRUE, wrote |-> FALSE]
                   ELSE /\ stack' = ReplaceTop([Top EXCEPT
                               !.dist = Top.self.dist,
                               !.path = gi.value.val.moduleDir \o PickledSuffix,
                               !.modulepath = Top.self.modulepath,
                               !.self = [Top.self EXCEPT
                                            !.modulepath = Portable(Top.self.modulepath),
                                            !.dist = Str(Top.self.dist.ref)],
                               !.pc = "dump"])
                        /\ UNCHANGED <<ret, saved>>
    /\ UNCHANGED <<unchangedEnv, calls, javaModule, jars, pickles>>

\* Lines 127-129: the object is pickled to the file, or writing it fails
SaveDump ==
    /\ ~Idle /\ Top.fn = "save" /\ Top.pc = "dump"
    /\ \E ok \in BOOLEAN :
          IF ok
          THEN /\ pickles' = Update(pickles, (Top.path :> Top.self))
               /\ stack' = ReplaceTop([Top EXCEPT !.pc = "finally"])
          ELSE /\ stack' = ReplaceTop([Top EXCEPT !.pc = "finally", !.raised = TRUE])
               /\ UNCHANGED pickles
    /\ UNCHANGED <<unchangedEnv, calls, ret, module_deps, javaModule, staging, jars, saved>>

\* Lines 130-132
SaveFinally ==
    /\ ~Idle /\ Top.fn = "save" /\ Top.pc = "finally"
    /\ SaveEnds(Restored(Top), Top.raised, ~Top.raised)
    /\ UNCHANGED <<unchangedEnv, calls, module_deps, javaModule, staging, jars, pickles>>

----------------------------------------------------------------------------
(* JavaModuleDescriptor.load and as_java_module *)

\* mx.distribution(name)
IsDistribution(name) == name \in Distributions

\* The index in jdk.get_modules() of the module called name, or 0
JdkModuleIndex(name) ==
    IF \E i \in 1..Len(JdkModules) : JdkModules[i].name = name
    THEN CHOOSE i \in 1..Len(JdkModules) : JdkModules[i].name = name
    ELSE 0

\* JavaModuleDescriptor.load(dist, jdk, fatalIfNotCreated) is called
LoadCall(dist, fatalIfNotCreated) ==
    /\ Called
    /\ stack' = <<LoadFrame(dist, fatalIfNotCreated)>>
    /\ ret' = Running("load", dist)
    /\ UNCHANGED <<unchangedEnv, module_deps, javaModule, staging, jars, pickles>>

\* Lines 86-99: the pickled object is read
LoadBegin ==
    /\ ~Idle /\ Top.fn = "load" /\ Top.pc = "begin"
    /\ LET gi == get_java_module_info(Top.dist, TRUE)
           path == gi.value.val.moduleDir \o PickledSuffix
       IN  /\ Apply(gi)
           /\ IF gi.status = "abort" THEN Abort(gi.abort.text, gi.abort.name)
              ELSE IF path \notin DOMAIN pickles
              THEN IF Top.fatalIfNotCreated
                   THEN Abort("does not exist: ", path)
                   ELSE Return(None)
              ELSE /\ stack' = ReplaceTop([Top EXCEPT !.jmd = pickles[path], !.pc = "resolve"])
                   /\ UNCHANGED ret
    /\ UNCHANGED <<unchangedEnv, calls, javaModule, jars, pickles, saved>>

\* Lines 100-109: one name of the pickled modulepath is resolved; after the
\* last one the object gets its live modulepath and distribution
LoadResolve ==
    /\ ~Idle /\ Top.fn = "load" /\ Top.pc = "resolve"
    /\ LET name == Top.jmd.modulepath[Top.i].str
           distName == StrFrom(name, Len(DistPrefix))
       IN  IF Top.i > Len(Top.jmd.modulepath)
           THEN IF ~IsDistribution(Top.jmd.dist.str)
                THEN Abort("distribution named not found: ", Top.jmd.dist.str)
                ELSE Return([Top.jmd EXCEPT !.modulepath = Top.modulepath,
                                            !.dist = Ref(Top.jmd.dist.str)])
           ELSE IF startswith(name, DistPrefix)
           THEN IF ~IsDistribution(distName)
                THEN Abort("distribution named not found: ", distName)
                ELSE /\ stack' = Call("as_java_module", AsJavaModuleFrame(distName, TRUE))
                     /\ UNCHANGED ret
           ELSE IF JdkModuleIndex(name) = 0
           THEN Abort("KeyError: ", name)
           ELSE /\ stack' = ReplaceTop([Top EXCEPT
                                !.modulepath = Append(@, JdkModules[JdkModuleIndex(name)]),
                                !.i = @ + 1])
                /\ UNCHANGED ret
    /\ UNCHANGED <<unchangedEnv, calls, module_deps, javaModule, staging, jars, pickles, saved>>

\* Lines 103-104: modulepath.append(as_java_module(distribution(name), jdk))
LoadResolved ==
    /\ ~Idle /\ Top.fn = "load" /\ Top.pc = "got_as_java_module"
    /\ stack' = ReplaceTop([Top EXCEPT !.modulepath = Append(@, Top.got), !.i = @ + 1,
                                       !.pc = "resolve"])
    /\ UNCHANGED <<unchangedEnv, calls, ret, module_deps, javaModule, staging, jars, pickles, saved>>

\* as_java_module(dist, jdk, fatalIfNotCreated) is called
AsJavaModuleCall(dist, fatalIfNotCreated) ==
    /\ Called
    /\ stack' = <<AsJavaModuleFrame(dist, fatalIfNotCreated)>>
    /\ ret' = Running("as_java_module", dist)
    /\ UNCHANGED <<unchangedEnv, module_deps, javaModule, staging, jars, pickles>>

\* Lines 228-230: the cached descriptor, or a call of load
AsJavaModuleBegin ==
    /\ ~Idle /\ Top.fn = "as_java_module" /\ Top.pc = "begin"
    /\ IF javaModule[Top.dist] # None
       THEN Return(javaModule[Top.dist])
       ELSE /\ stack' = Call("load", LoadFrame(Top.dist, Top.fatalIfNotCreated))
            /\ UNCHANGED ret
    /\ UNCHANGED <<unchangedEnv, calls, module_deps, javaModule, staging, jars, pickles, saved>>

\* Lines 231-234: a loaded descriptor is cached
AsJavaModuleLoaded ==
    /\ ~Idle /\ Top.fn = "as_java_module" /\ Top.pc = "got_load"
    /\ javaModule' = IF Top.got # None THEN Update(javaModule, (Top.dist :> Top.got))
                     ELSE javaModule
    /\ Return(Top.got)
    /\ UNCHANGED <<unchangedEnv, calls, module_deps, staging, jars, pickles, saved>>

----------------------------------------------------------------------------
(* The other calls from the top level *)

\* JavaModuleDescriptor(name, exports, {}, (), {}, packages, modulepath=modulepath)
Construct(name, exports, packages, dist, modulepath) ==
    /\ Called
    /\ LET jmd == JavaModuleDescriptor(name, exports, EmptyDict, {}, EmptyDict, packages,
                                       EmptyDict, None, dist, modulepath, FALSE)
       IN  ret' = IF IsDescriptor(jmd)
                  THEN [op |-> "JavaModuleDescriptor", dist |-> name, status |-> "return",
                        value |-> jmd, exports |-> exports, packages |-> packages]
                  ELSE [op |-> "JavaModuleDescriptor", dist |-> name, status |-> "abort",
                        abort |-> [text |-> "AssertionError", name |-> <<>>],
                        traceback |-> <<>>, exports |-> exports, packages |-> packages]
    /\ UNCHANGED <<unchangedEnv, module_deps, javaModule, staging, jars, pickles, stack>>

\* The descriptors the caller holds after the last call
Held ==
    {JdkModules[i] : i \in 1..Len(JdkModules)}
    \cup (IF ret.op # "none" /\ ret.status = "return"
          THEN (IF ret.value # None THEN {ret.value} ELSE {})
               \cup (IF "self" \in DOMAIN ret THEN {ret.self} ELSE {})
          ELSE {})

\* The constructions the caller makes: of a module without distribution,
\* with and without packages, and of a module of APP whose module path holds
\* the JDK's modules and the module of LIB_X the caller holds
Constructions ==
    {[exports |-> e, packages |-> p, dist |-> None, modulepath |-> <<>>] :
        e \in PartialMaps({PKG_P}, {{}}), p \in {None, Some({}), Some({PKG_P, PKG_Q})}}
    \cup {[exports |-> (PKG_P :> {}), packages |-> Some({PKG_P, PKG_Q}),
           dist |-> Ref(DIST_APP), modulepath |-> JdkModules \o m] :
             m \in {<<>>} \cup {<<h>> : h \in {x \in Held : x.dist = Ref(DIST_LIB)}}}

----------------------------------------------------------------------------
(* The build scenarios *)

Registration(service) == ServicesPrefix \o service
ClassFile(service) == ServiceClass(service)
APP_CLASS == <<"c", "o", "m", "/", "a", "p", "p", "/", "A">> \o ClassSuffix
LIB_CLASS == <<"c", "o", "m", "/", "l", "i", "b", "/", "L">> \o ClassSuffix

\* Both archives register a provider of x.S, the class of x.S is in LIB_X;
\* or APP registers two providers and the class of x.S is in LIB_X only;
\* or both archives are jars without entries
Archives ==
    { [d \in Distributions |-> <<>>],
      (DIST_APP :> ((Registration(SVC_S) :> <<IMPL_1>>) @@ (APP_CLASS :> <<>>)))
      @@ (DIST_LIB :> ((Registration(SVC_S) :> <<IMPL_2>>) @@ (ClassFile(SVC_S) :> <<>>)
                       @@ (LIB_CLASS :> <<>>))),
      (DIST_APP :> ((Registration(SVC_S) :> <<IMPL_1, IMPL_2>>) @@ (APP_CLASS :> <<>>)))
      @@ (DIST_LIB :> ((ClassFile(SVC_S) :> <<>>) @@ (LIB_CLASS :> <<>>))) }

AppProjects ==
    { [defined |-> {PKG_COM_APP}, imported |-> {PKG_COM_LIB, PKG_JAVA_LANG}, imports |-> {},
       exports |-> None, uses |-> {}, runtimeDeps |-> {}, packageInfo |-> {}],
      [defined |-> {PKG_COM_APP}, imported |-> {PKG_COM_LIB_IMPL, PKG_COM_APP},
       imports |-> {PKG_JDK_INTERNAL, PKG_COM_LIB}, exports |-> None, uses |-> {SVC_T},
       runtimeDeps |-> {JAVA_BASE}, packageInfo |-> {}] }

LibProjects ==
    { [defined |-> {PKG_COM_LIB, PKG_COM_LIB_IMPL}, imported |-> {PKG_JAVA_LANG},
       imports |-> {}, exports |-> e, uses |-> {}, runtimeDeps |-> {},
       packageInfo |-> {PKG_COM_LIB}] :
       e \in {None, Some({PACKAGE_INFO}), Some({PKG_COM_LIB, PKG_COM_NOPE})} }

Init ==
    /\ args = [op |-> "none"]
    /\ ret = [op |-> "none"]
    /\ deps = DepsOf
    /\ changes = 0
    /\ firstReturned = [d \in Distributions |-> None]
    /\ module_deps = [d \in Distributions |-> None]
    /\ \/ /\ moduleDepsEqualDistDeps = TRUE
          /\ moduledeps = [d \in Distributions |-> <<>>]
          /\ moduleName \in {(DIST_APP :> Str(MODULE_APP)) @@ (DIST_LIB :> n) :
                                n \in {None, Str(<<>>), Str(MODULE_LIB)}}
       \/ /\ moduleDepsEqualDistDeps = FALSE
          /\ moduledeps \in {(DIST_APP :> a) @@ (DIST_LIB :> l) :
                                a \in {<<>>, <<DIST_LIB>>, <<DIST_APP, DIST_LIB>>},
                                l \in {<<>>}}
          /\ moduleName = [d \in Distributions |-> None]
    /\ project \in {(PROJ_APP :> a) @@ (PROJ_LIB :> l) : a \in AppProjects, l \in LibProjects}
    /\ archive \in Archives
    /\ javaModule = [d \in Distributions |-> None]
    /\ staging = <<>>
    /\ jars = <<>>
    /\ pickles = <<>>
    /\ stack = <<>>
    /\ saved = None
    /\ calls = 0

Next ==
    \/ \E dist \in Distributions : MakeCall(dist)
    \/ MakeInfo
    \/ MakeDeps
    \/ MakeDepsModule
    \/ MakeSynth
    \/ MakeUnpack
    \/ MakeWrite
    \/ MakeJavac
    \/ MakeArchive
    \/ MakeSave
    \/ MakeReturn
    \/ \E jmd \in Held : SaveCall(jmd)
    \/ SaveBegin
    \/ SaveDump
    \/ SaveFinally
    \/ \E dist \in Distributions, fatalIfNotCreated \in BOOLEAN :
          LoadCall(dist, fatalIfNotCreated)
    \/ LoadBegin
    \/ LoadResolve
    \/ LoadResolved
    \/ \E dist \in Distributions, fatalIfNotCreated \in BOOLEAN :
          AsJavaModuleCall(dist, fatalIfNotCreated)
    \/ AsJavaModuleBegin
    \/ AsJavaModuleLoaded
    \/ \E c \in Constructions :
          Construct(M_A, c.exports, c.packages, c.dist, c.modulepath)

Spec == Init /\ [][Next]_vars

----------------------------------------------------------------------------
(* Properties of the descriptors, of save and load and of the pipeline *)

\* The descriptors a frame of the call stack holds
FrameDescriptors(f) ==
    CASE f.fn = "make_java_module" ->
            {x \in {f.jmd, f.got} : x # None} \cup ValueSet(f.modulepath)
      [] f.fn = "save" -> {f.self, f.before}
      [] f.fn = "load" -> {x \in {f.jmd, f.got} : x # None} \cup ValueSet(f.modulepath)
      [] OTHER -> {x \in {f.got} : x # None}

\* Every descriptor of the state: held by the caller, cached on a
\* distribution, pickled, or held by a call in progress
AllDescriptors ==
    Held
    \cup {javaModule[d] : d \in {e \in Distributions : javaModule[e] # None}}
    \cup {pickles[p] : p \in DOMAIN pickles}
    \cup UNION {FrameDescriptors(stack[i]) : i \in 1..Len(stack)}

\* The members of a descriptor's module path that are descriptors
Members(d) == {m \in ValueSet(d.modulepath) : IsDescriptor(m)}

\* C1: every descriptor of a reachable state (constructed directly, made by
\* make_java_module, loaded, or a member of the module path of one of these)
\* has exports.keys() within packages; a construction with an exports key
\* outside the given packages ends in an assertion failure and yields no
\* descriptor; a construction without packages yields packages = exports.keys().
C1_ExportsWithinPackages ==
    /\ \A d \in AllDescriptors :
          /\ DOMAIN d.exports \subseteq d.packages
          /\ \A m \in Members(d) : DOMAIN m.exports \subseteq m.packages
    /\ ret.op = "JavaModuleDescriptor" =>
          /\ (ret.packages # None /\ ~(DOMAIN ret.exports \subseteq ret.packages.val))
                => (ret.status = "abort" /\ ret.abort.text = "AssertionError")
          /\ ret.packages = None
                => (ret.status = "return" /\ ret.value.packages = DOMAIN ret.exports)
          /\ ret.status = "return" => DOMAIN ret.value.exports \subseteq ret.value.packages

\* A construction with an exports key outside the packages has failed, after
\* make_java_module has made and pickled a descriptor that conceals a package
C1_Witness ==
    /\ ret.op = "JavaModuleDescriptor" /\ ret.status = "abort"
    /\ ~(DOMAIN ret.exports \subseteq ret.packages.val)
    /\ \E p \in DOMAIN pickles : pickles[p].conceals # {} /\ DOMAIN pickles[p].exports # {}

\* C3: when load is called for a distribution after a descriptor d of that
\* distribution was saved, it returns a descriptor with d's name, exports,
\* requires, uses and provides, whose dist is the distribution itself and
\* whose modulepath has as many members as d's, with the same names in the
\* same order: the JDK's module of that name for a member without dist, the
\* module of the same distribution for a member with one.
C3_RoundTrip ==
    (/\ ret.op = "load" /\ ret.status \in {"return", "abort"}
     /\ saved # None /\ saved.wrote /\ saved.self.dist = Ref(ret.dist))
    => /\ ret.status = "return"
       /\ ret.value # None
       /\ LET d == saved.self
              v == ret.value
          IN  /\ v.name = d.name
              /\ v.exports = d.exports
              /\ v.requires = d.requires
              /\ v.uses = d.uses
              /\ v.provides = d.provides
              /\ v.dist = Ref(ret.dist)
              /\ Len(v.modulepath) = Len(d.modulepath)
              /\ \A i \in 1..Len(d.modulepath) :
                    /\ IsDescriptor(v.modulepath[i])
                    /\ v.modulepath[i].name = d.modulepath[i].name
                    /\ v.modulepath[i].dist = d.modulepath[i].dist
                    /\ d.modulepath[i].dist = None
                          => v.modulepath[i] = JdkModules[JdkModuleIndex(d.modulepath[i].name)]

\* load has returned the descriptor saved for a distribution whose module path
\* has a member made from a distribution and a member of the JDK
C3_Witness ==
    /\ ret.op = "load" /\ ret.status = "return" /\ ret.value # None
    /\ saved # None /\ saved.wrote /\ saved.self.dist = Ref(ret.dist)
    /\ \E i \in 1..Len(ret.value.modulepath) : ret.value.modulepath[i].dist # None
    /\ \E i \in 1..Len(ret.value.modulepath) : ret.value.modulepath[i].dist = None

\* The scenario of C5: APP_ depends on the distribution LIB_X, whose project
\* defines and exports com.lib, and APP's project imports com.lib; the call
\* make_java_module(APP) has returned a descriptor
C5_Scenario ==
    /\ ret.op = "make_java_module" /\ ret.dist = DIST_APP
    /\ ret.status = "return" /\ ret.value # None
    /\ \E i \in 1..Len(deps[DIST_APP]) : deps[DIST_APP][i] = DIST_LIB
    /\ PKG_COM_LIB \in project[PROJ_LIB].defined
    /\ PKG_COM_LIB \in expand_package_info(PROJ_LIB, ExportsAttr(PROJ_LIB))
    /\ PKG_COM_LIB \in project[PROJ_APP].imported

\* The name of the module of LIB_X
C5_Lib ==
    IF moduleDepsEqualDistDeps THEN moduleName[DIST_LIB].str ELSE DerivedModuleName(DIST_LIB)

\* C5 as stated: in the scenario the descriptor requires lib with an empty
\* modifier set, com.lib is in no entry of concealedRequires and lib's module
\* is on the modulepath.
C5_RequiresEmptyModifiers ==
    C5_Scenario =>
       /\ C5_Lib \in DOMAIN ret.value.requires
       /\ ret.value.requires[C5_Lib] = {}
       /\ \A m \in DOMAIN ret.value.concealedRequires :
             PKG_COM_LIB \notin ret.value.concealedRequires[m]
       /\ \E i \in 1..Len(ret.value.modulepath) : ret.value.modulepath[i].name = C5_Lib

\* C5 (amended): in the scenario, when module dependencies equal the
\* distribution dependencies, the descriptor requires lib with the modifier
\* set holding exactly the transitive keyword, com.lib is in no entry of
\* concealedRequires and the module of LIB_X is on the modulepath.
C5_RequiresTransitive ==
    (C5_Scenario /\ moduleDepsEqualDistDeps) =>
       /\ C5_Lib \in DOMAIN ret.value.requires
       /\ ret.value.requires[C5_Lib] = {get_transitive_requires_keyword}
       /\ \A m \in DOMAIN ret.value.concealedRequires :
             PKG_COM_LIB \notin ret.value.concealedRequires[m]
       /\ \E i \in 1..Len(ret.value.modulepath) :
             /\ ret.value.modulepath[i].name = C5_Lib
             /\ ret.value.modulepath[i].dist = Ref(DIST_LIB)

\* The scenario has happened where module dependencies equal the distribution
\* dependencies
C5_Witness ==
    /\ C5_Scenario /\ moduleDepsEqualDistDeps
    /\ ret.value.requires[C5_Lib] = {TRANSITIVE}

\* The distributions whose archives make_java_module(dist) unpacks
Constituents(dist) ==
    {dist} \cup {d \in ValueSet(IF moduleDepsEqualDistDeps THEN archived_deps(dist)
                                ELSE module_deps[dist].val) : isJARDistribution(d)}

\* C7 as stated: for every entry META-INF/services/S of an unpacked archive
\* the descriptor make_java_module returns has the entry's providers in
\* provides[S], and S in uses whenever the class file of S is in any of the
\* unpacked archives.
C7_UsesAcrossArchives ==
    (ret.op = "make_java_module" /\ ret.status = "return" /\ ret.value # None) =>
       LET unpacked == UNION {DOMAIN archive[d] : d \in Constituents(ret.dist)}
       IN  \A d \in Constituents(ret.dist) :
              \A a \in DOMAIN archive[d] :
                 IsServiceEntry(a) =>
                    /\ ServiceOf(a) \in DOMAIN ret.value.provides
                    /\ ValueSet(archive[d][a]) \subseteq ret.value.provides[ServiceOf(a)]
                    /\ ServiceClass(ServiceOf(a)) \in unpacked
                          => ServiceOf(a) \in ret.value.uses

\* A step of save keeps C9's promise: a save of a descriptor without dist
\* ends at once and leaves the pickled files alone; when a save ends, by a
\* return or by an exception, the object is the one its caller passed
C9_Step ==
    (~Idle /\ Top.fn = "save") =>
       LET ended == Len(stack') < Len(stack)
       IN  /\ Top.before.dist = None => (ended /\ pickles' = pickles)
           /\ ended => /\ saved' # None
                       /\ saved'.self = Top.before
                       /\ saved'.raised = (ret'.status = "abort")
                       /\ Len(stack') > 0 => stack'[Len(stack')].jmd = Top.before

\* C9: after save returns or raises, whether while the object is written or
\* before, the descriptor is as it was before the call, modulepath and dist
\* included; save of a descriptor without dist writes nothing.
C9_SaveRestores == [][C9_Step]_vars

\* A save of a descriptor with a distribution and a module path has failed
\* while the object was written, and the descriptor is as it was
C9_Witness ==
    /\ saved # None /\ saved.raised
    /\ saved.before.dist # None
    /\ Len(saved.before.modulepath) > 0
    /\ saved.self = saved.before
    /\ ret.status = "abort" /\ ret.abort.text = "IOError"

\* The module jar and the pickled descriptor of frame f's module are as they
\* were when the call began
Untouched(f) == FilesOf(f.info) = f.entry

\* What C10 says of a frame of make_java_module, by the step it is at
C10_Frame(f, waiting) ==
    LET dir == f.info.moduleDir
        jar == f.info.moduleJar
        pickled == f.info.moduleDir \o PickledSuffix
        InPlace == /\ f.javac = "ok"
                   /\ jar \in DOMAIN jars
                   /\ ModuleInfoClass \in DOMAIN jars[jar]
                   /\ ModuleInfoJava \in DOMAIN jars[jar]
                   /\ DOMAIN archive[f.dist] \subseteq DOMAIN jars[jar]
    IN  CASE f.pc = "info" -> TRUE
          [] f.pc \in {"deps", "as_java_module", "got_as_java_module",
                       "make_java_module", "got_make_java_module", "synth"} ->
                Untouched(f) /\ f.javac = "not run"
          [] f.pc = "unpack" ->
                Untouched(f) /\ f.javac = "not run" /\ dir \notin DOMAIN staging
          [] f.pc = "write" ->
                /\ Untouched(f) /\ f.javac = "not run"
                /\ IF dir \in DOMAIN staging
                   THEN /\ DOMAIN archive[f.dist] \subseteq DOMAIN staging[dir]
                        /\ ModuleInfoJava \notin DOMAIN staging[dir]
                   ELSE archive[f.dist] = <<>>
          [] f.pc = "javac" ->
                /\ Untouched(f) /\ f.javac = "not run"
                /\ DOMAIN archive[f.dist] \subseteq DOMAIN staging[dir]
                /\ ModuleInfoJava \in DOMAIN staging[dir]
                /\ ModuleInfoClass \notin DOMAIN staging[dir]
          [] f.pc = "archive" ->
                /\ Untouched(f) /\ f.javac = "ok"
                /\ ModuleInfoClass \in DOMAIN staging[dir]
          [] f.pc = "save" ->
                /\ InPlace
                /\ \/ FilesOf(f.info).pickle = f.entry.pickle
                   \/ waiting /\ pickles[pickled].name = f.jmd.name
          [] f.pc = "got_save" ->
                /\ InPlace
                /\ pickled \in DOMAIN pickles
                /\ pickles[pickled].name = f.jmd.name
                /\ pickles[pickled].exports = f.jmd.exports

\* C10: a call of make_java_module clears the staging directory, unpacks the
\* archives, writes module-info.java, runs the compiler, puts the module jar
\* in place and saves the descriptor, in this order; the descriptor is
\* pickled only after the compiler succeeded and the jar is in place; when
\* the compiler exits non-zero the call aborts with the module jar and the
\* pickled descriptor as they were before the call, and returns nothing.
C10_Pipeline ==
    /\ \A i \in 1..Len(stack) :
          stack[i].fn = "make_java_module" => C10_Frame(stack[i], i < Len(stack))
    /\ (ret.op # "none" /\ ret.status = "abort" /\ ret.abort.text = "javac exited with ")
          => LET f == ret.traceback[Len(ret.traceback)]
             IN  /\ f.fn = "make_java_module" /\ f.pc = "javac"
                 /\ Untouched(f)
                 /\ Idle
    /\ (ret.op = "make_java_module" /\ ret.status = "return" /\ ret.value # None)
          => /\ ret.value.jarpath.str \in DOMAIN jars
             /\ ModuleInfoClass \in DOMAIN jars[ret.value.jarpath.str]

\* The compiler has failed in a call of make_java_module made by another
\* call of make_java_module, when an earlier call had made the module
C10_Witness ==
    /\ ret.op = "make_java_module" /\ ret.status = "abort"
    /\ ret.abort.text = "javac exited with "
    /\ Len(ret.traceback) > 1
    /\ ret.traceback[Len(ret.traceback)].entry.jar # None

====
